---- MODULE Spec2Model ----
(***************************************************************************)
(* The CTA collector: the collection schedule (scripts/server.py job       *)
(* 'collect', scripts/collect_data.py collect_loop), one collection round  *)
(* (collect_once with its two adapters), and the export/publish job        *)
(* (job_dbt_and_push with scripts/export_for_replit.py export).            *)
(*                                                                         *)
(* Time is counted in units of which Interval make one poll interval; the  *)
(* publish interval is ExportEvery poll intervals.                         *)
(***************************************************************************)
EXTENDS Integers, Sequences, FiniteSets, Bags, TLC

\* ---- bounds of the model -------------------------------------------------
Interval == 1
ExportEvery == 1
MaxStations == 2
MaxStops == 11
MaxRows == 1

\* ---- program constants ---------------------------------------------------
\* scheduler.add_job(job_collect, ...) passes no max_instances: the default.
CollectMaxInstancesTwo == 1 + 1
CollectMaxInstances == 1

\* scheduler.add_job(job_dbt_and_push, ...) passes no max_instances either.
PublishMaxInstancesTwo == 1 + 1
PublishMaxInstances == 1

\* "Bus API accepts up to 10 stops per request"
BatchCap == 10

VARIABLES
    driver,      \* "scheduler" (server.py) or "loop" (collect_data.py --loop)
    config,      \* config.yml: [nStations, nStops]
    env,         \* environment: [trainKey, busKey, ghToken]
    proc,        \* "running" or "dead": the collector process
    phase,       \* time units since the last poll-interval boundary
    pubPhase,    \* poll intervals since the last publish tick
    collectDue,  \* the 'collect' job's run time has come and is not yet processed
    publishDue,  \* the 'dbt_and_push' job's run time has come, not yet processed
    sleepLeft,   \* collect_loop: time units left of time.sleep(interval)
    sinceStart,  \* time units since the last round start, saturating at Interval
    c,           \* collection rounds, one per executor slot
    p,           \* publish runs, one per executor slot
    raw,         \* Raw Prediction Store: rows of raw_train_arrivals, raw_bus_predictions
    marts,       \* the mart tables built by dbt: table -> content
    exports,     \* exports/*.parquet of the collector host: table -> content
    remote,      \* the tree of the remote branch head: path -> content
    input,       \* the arguments of the function a specification of one function applies
    output       \* the result of that function

vars == <<driver, config, env, proc, phase, pubPhase, collectDue, publishDue,
          sleepLeft, sinceStart, c, p, raw, marts, exports, remote, input, output>>

timeVars == <<phase, pubPhase, sleepLeft, sinceStart>>
dataVars == <<raw, marts, exports, remote>>
fixedVars == <<driver, config, env, input, output>>

\* No function is being applied.
NoCall == [kind |-> "no_call"]

Min(a, b) == IF a < b THEN a ELSE b

\* F of the value of x, with x evaluated once.
Bind(x, F(_)) == CHOOSE y \in {F(v) : v \in {x}} : TRUE
Range(q) == {q[k] : k \in 1..Len(q)}

\* ---- data ----------------------------------------------------------------
Adapters == {"rail", "bus"}
CollectSlots == 1..CollectMaxInstances
PublishSlots == 1..PublishMaxInstances

\* The rows an upstream answer with k predictions yields for one adapter.
RowsOf(mode, k) == {[mode |-> mode, n |-> n] : n \in 1..k}

\* What one upstream request can come back with: a network/HTTP error or
\* timeout, a JSON body of the wrong shape, or k well-formed predictions.
Responses ==
    {[kind |-> "unavailable", k |-> 0], [kind |-> "malformed", k |-> 0]}
        \cup {[kind |-> "ok", k |-> k] : k \in 0..MaxRows}

\* conn.executemany("INSERT INTO raw_... VALUES (...)", rows)
AppendedReplacing(store, rows) == rows
AppendedLater(store, rows) == store
Appended(store, rows) == store \cup rows

\* A table or file that does not exist, and one that holds `content`.
Absent == [exists |-> FALSE, content |-> {}]
Holding(content) == [exists |-> TRUE, content |-> content]

\* ---- one collection round (collect_once) -----------------------------------
\* status[a]: "no_request" until adapter a has sent a request, "all_failed"
\* while every request it sent has failed, "answered" once one was answered.
IdleRound ==
    [pc |-> "idle", i |-> 0, conn |-> FALSE, outcome |-> "none",
     invoked |-> {}, status |-> [a \in Adapters |-> "no_request"],
     fetched |-> {}, requests |-> [a \in Adapters |-> 0], dropped |-> {},
     sent |-> <<>>]
\* fetched: the rows built from the answers of this round; requests[a]: the
\* requests adapter a has sent; dropped: the adapters of which a request
\* failed or came back malformed; sent: the batches of stop ids the bus
\* adapter has put in a request, in the order of the requests.

NewRound == [IdleRound EXCEPT !.pc = "load_config"]

Running(f) == {s \in DOMAIN f : f[s].pc # "idle"}

FailedOutcomes ==
    {"failed_config", "failed_db", "failed_unavailable", "failed_malformed",
     "failed_store"}

\* ---- exception handling of the collector -------------------------------------
\* fetch_train_arrivals: "except Exception as e: print(...); continue".
AfterTrainFetchErrorRaising == "raise"
AfterTrainFetchError == "continue"

\* fetch_bus_predictions: "except Exception as e: print(...); continue".
AfterBusFetchErrorRaising == "raise"
AfterBusFetchError == "continue"

\* collect_loop: "except Exception as e: print(...)" around collect_once().
CollectLoopCatchesNothing == FALSE
CollectLoopCatches == TRUE

\* time.sleep(interval_seconds) after every round of collect_loop.
SleepTimeShort == Interval - 1
SleepTime == Interval

\* The process after collect_once raised. job_collect catches Exception (and
\* what leaves a job is caught by the scheduler's executor); an exception that
\* leaves collect_loop ends the process.
ProcAfterRaise ==
    IF driver = "loop" /\ ~CollectLoopCatches THEN "dead" ELSE "running"

\* collect_once returns (outcome "completed") or raises (a failed outcome)
\* into its caller: job_collect or the body of collect_loop.
RoundEnds(s, r, outcome) ==
    /\ c' = [c EXCEPT ![s] = [r EXCEPT !.pc = "ended", !.outcome = outcome]]
    /\ proc' = IF outcome \in FailedOutcomes THEN ProcAfterRaise ELSE proc

RoundGoes(s, r) ==
    /\ c' = [c EXCEPT ![s] = r]
    /\ proc' = proc

Failed(r, a) ==
    [r EXCEPT !.status[a] = IF @ = "no_request" THEN "all_failed" ELSE @,
              !.requests[a] = @ + 1,
              !.dropped = @ \cup {a}]

Answered(r, a) == [r EXCEPT !.status[a] = "answered", !.requests[a] = @ + 1]

\* The answer arrived and its body is not of the expected shape.
Malformed(r, a) == [Answered(r, a) EXCEPT !.dropped = @ \cup {a}]

\* The requests a run of adapter a sends when nothing stops it.
NBatches(a) ==
    IF a = "rail"
        THEN config.nStations
        ELSE (config.nStops + BatchCap - 1) \div BatchCap

\* config = load_config()
LoadConfig(s, ok) ==
    /\ proc = "running"
    /\ c[s].pc = "load_config"
    /\ IF ok
          THEN RoundGoes(s, [c[s] EXCEPT !.pc = "get_db"])
          ELSE RoundEnds(s, c[s], "failed_config")
    /\ UNCHANGED <<fixedVars, timeVars, collectDue, publishDue, p, dataVars>>

\* conn = get_db(DB_PATH): duckdb.connect and CREATE TABLE IF NOT EXISTS.
GetDb(s, ok) ==
    /\ proc = "running"
    /\ c[s].pc = "get_db"
    /\ IF ok
          THEN RoundGoes(s, [c[s] EXCEPT !.pc = "train", !.conn = TRUE])
          ELSE RoundEnds(s, c[s], "failed_db")
    /\ UNCHANGED <<fixedVars, timeVars, collectDue, publishDue, p, dataVars>>

\* fetch_train_arrivals up to its loop: the early returns.
TrainEnter(s) ==
    /\ proc = "running"
    /\ c[s].pc = "train"
    /\ LET r == [c[s] EXCEPT !.invoked = @ \cup {"rail"}]
       IN  IF ~env.trainKey \/ config.nStations = 0
              THEN RoundGoes(s, [r EXCEPT !.pc = "bus"])
              ELSE RoundGoes(s, [r EXCEPT !.pc = "train_req", !.i = 1])
    /\ UNCHANGED <<fixedVars, timeVars, collectDue, publishDue, p, dataVars>>

\* The station after station i, or the end of fetch_train_arrivals.
TrainNext(r) ==
    IF r.i < config.nStations
        THEN [r EXCEPT !.i = @ + 1]
        ELSE [r EXCEPT !.pc = "bus", !.i = 0]

\* One iteration of "for station_id in station_ids": the request, the rows
\* built from the answer, the insert.
TrainRequest(s, resp, insertOk) ==
    /\ proc = "running"
    /\ c[s].pc = "train_req"
    /\ LET r == c[s]
           rows == RowsOf("rail", resp.k)
       IN  CASE resp.kind = "unavailable" ->
                  /\ IF AfterTrainFetchError = "continue"
                        THEN RoundGoes(s, TrainNext(Failed(r, "rail")))
                        ELSE RoundEnds(s, Failed(r, "rail"), "failed_unavailable")
                  /\ raw' = raw
             [] resp.kind = "malformed" ->
                  \* data.get(...).get(...), eta.get(...), int(...) raise
                  \* outside the try
                  /\ RoundEnds(s, Malformed(r, "rail"), "failed_malformed")
                  /\ raw' = raw
             [] resp.kind = "ok" /\ rows = {} ->
                  /\ RoundGoes(s, TrainNext(Answered(r, "rail")))
                  /\ raw' = raw
             [] resp.kind = "ok" /\ rows # {} /\ insertOk ->
                  /\ RoundGoes(s, TrainNext(
                         [Answered(r, "rail") EXCEPT !.fetched = @ \cup rows]))
                  /\ raw' = Appended(raw, rows)
             [] resp.kind = "ok" /\ rows # {} /\ ~insertOk ->
                  /\ RoundEnds(s, [Answered(r, "rail") EXCEPT !.fetched = @ \cup rows],
                               "failed_store")
                  /\ raw' = raw
    /\ UNCHANGED <<fixedVars, timeVars, collectDue, publishDue, p,
                   marts, exports, remote>>

\* stop_ids = [str(s["id"]) for s in config.get("bus_stops", [])]
StopIds(n) == [k \in 1..n |-> k]

\* batch = stop_ids[i : i + 10]
Batch(ids, i) == SubSeq(ids, i + 1, Min(i + BatchCap, Len(ids)))

\* fetch_bus_predictions up to its loop: the early returns.
BusEnter(s) ==
    /\ proc = "running"
    /\ c[s].pc = "bus"
    /\ LET r == [c[s] EXCEPT !.invoked = @ \cup {"bus"}]
       IN  IF ~env.busKey \/ StopIds(config.nStops) = <<>>
              THEN RoundGoes(s, [r EXCEPT !.pc = "close"])
              ELSE RoundGoes(s, [r EXCEPT !.pc = "bus_req", !.i = 0])
    /\ UNCHANGED <<fixedVars, timeVars, collectDue, publishDue, p, dataVars>>

\* The next step of "for i in range(0, len(stop_ids), 10)", or the end of
\* fetch_bus_predictions.
BusNext(r) ==
    IF r.i + BatchCap < config.nStops
        THEN [r EXCEPT !.i = @ + BatchCap]
        ELSE [r EXCEPT !.pc = "close", !.i = 0]

\* One iteration of the batch loop: the request for Batch(stop_ids, i), the
\* rows built from the answer, the insert.
BusRequest(s, resp, insertOk) ==
    /\ proc = "running"
    /\ c[s].pc = "bus_req"
    /\ Batch(StopIds(config.nStops), c[s].i) # <<>>
    /\ LET r == [c[s] EXCEPT
                    !.sent = Append(@, Batch(StopIds(config.nStops), c[s].i))]
           rows == RowsOf("bus", resp.k)
       IN  CASE resp.kind = "unavailable" ->
                  /\ IF AfterBusFetchError = "continue"
                        THEN RoundGoes(s, BusNext(Failed(r, "bus")))
                        ELSE RoundEnds(s, Failed(r, "bus"), "failed_unavailable")
                  /\ raw' = raw
             [] resp.kind = "malformed" ->
                  \* data.get(...).get(...), prd.get(...) raise outside the try
                  /\ RoundEnds(s, Malformed(r, "bus"), "failed_malformed")
                  /\ raw' = raw
             [] resp.kind = "ok" /\ rows = {} ->
                  /\ RoundGoes(s, BusNext(Answered(r, "bus")))
                  /\ raw' = raw
             [] resp.kind = "ok" /\ rows # {} /\ insertOk ->
                  /\ RoundGoes(s, BusNext(
                         [Answered(r, "bus") EXCEPT !.fetched = @ \cup rows]))
                  /\ raw' = Appended(raw, rows)
             [] resp.kind = "ok" /\ rows # {} /\ ~insertOk ->
                  /\ RoundEnds(s, [Answered(r, "bus") EXCEPT !.fetched = @ \cup rows],
                               "failed_store")
                  /\ raw' = raw
    /\ UNCHANGED <<fixedVars, timeVars, collectDue, publishDue, p,
                   marts, exports, remote>>

\* conn.close() and the return of collect_once.
CloseConn(s) ==
    /\ proc = "running"
    /\ c[s].pc = "close"
    /\ RoundEnds(s, [c[s] EXCEPT !.conn = FALSE], "completed")
    /\ UNCHANGED <<fixedVars, timeVars, collectDue, publishDue, p, dataVars>>

\* The caller of collect_once has logged what it caught: job_collect returns
\* and its worker is free, or collect_loop calls time.sleep(interval_seconds).
CollectReturns(s) ==
    /\ proc = "running"
    /\ c[s].pc = "ended"
    /\ c' = [c EXCEPT ![s] = IdleRound]
    /\ sleepLeft' = IF driver = "loop" THEN SleepTime ELSE sleepLeft
    /\ UNCHANGED <<fixedVars, proc, phase, pubPhase, sinceStart, collectDue,
                   publishDue, p, dataVars>>

\* ---- the two drivers of the collector -------------------------------------
\* The scheduler's 'collect' job comes due and fewer than max_instances runs
\* of it are in progress: job_collect starts in slot s.
CollectTick(s) ==
    /\ proc = "running"
    /\ driver = "scheduler"
    /\ collectDue
    /\ Cardinality(Running(c)) < CollectMaxInstances
    /\ c[s].pc = "idle"
    /\ c' = [c EXCEPT ![s] = NewRound]
    /\ collectDue' = FALSE
    /\ sinceStart' = 0
    /\ UNCHANGED <<fixedVars, proc, phase, pubPhase, publishDue, sleepLeft,
                   p, dataVars>>

\* The 'collect' job comes due while max_instances runs of it are in
\* progress: the run is dropped (with a warning), not queued.
CollectTickSkipped ==
    /\ proc = "running"
    /\ driver = "scheduler"
    /\ collectDue
    /\ Cardinality(Running(c)) >= CollectMaxInstances
    /\ collectDue' = FALSE
    /\ UNCHANGED <<fixedVars, proc, timeVars, publishDue, c, p, dataVars>>

\* collect_loop: the first pass of "while True", or time.sleep has returned.
LoopStart ==
    /\ proc = "running"
    /\ driver = "loop"
    /\ c[1].pc = "idle"
    /\ sleepLeft = 0
    /\ c' = [c EXCEPT ![1] = NewRound]
    /\ sinceStart' = 0
    /\ UNCHANGED <<fixedVars, proc, phase, pubPhase, collectDue, publishDue,
                   sleepLeft, p, dataVars>>

\* One unit of time passes. A job that is due is processed, and a sleep that
\* has run out returns, before more time passes.
Advance ==
    /\ proc = "running"
    /\ ~collectDue /\ ~publishDue
    /\ ~(driver = "loop" /\ c[1].pc = "idle" /\ sleepLeft = 0)
    /\ phase' = (phase + 1) % Interval
    /\ pubPhase' = IF phase' = 0 THEN (pubPhase + 1) % ExportEvery ELSE pubPhase
    /\ collectDue' = (driver = "scheduler" /\ phase' = 0)
    /\ publishDue' = (driver = "scheduler" /\ phase' = 0 /\ pubPhase' = 0)
    /\ sleepLeft' = IF sleepLeft > 0 THEN sleepLeft - 1 ELSE 0
    /\ sinceStart' = Min(sinceStart + 1, Interval)
    /\ UNCHANGED <<fixedVars, proc, c, p, dataVars>>

\* ---- the dashboard's data source (app/streamlit_app.py) -----------------------
\* get_connection in parquet mode: a view for every table whose file exists;
\* has_table(conn, t) finds the view.
HasTable(files, t) == t \in DOMAIN files /\ files[t].exists

\* "if not has_table(conn, "headway_stats"): st.warning(...); st.stop()"
DashboardStopsNoData(files) == ~HasTable(files, "headway_stats")

\* ---- the export/publish job (job_dbt_and_push) -------------------------------
\* MART_TABLES of the dashboard (app/streamlit_app.py).
MART_TABLES == <<"on_time_by_route_hour", "arrival_history", "headway_stats">>

\* TABLES of scripts/export_for_replit.py.
TABLES == <<"on_time_by_route_hour", "arrival_history">>

\* A file set: for each table name the content of <table>.parquet, or Absent.
NoFiles == [t \in Range(MART_TABLES) |-> Absent]

\* The tree of the remote branch: exports/<table>.parquet under the name of
\* its table, and a tracked file outside exports/. At the start the branch
\* holds no export file.
OutsidePath == "scripts/server.py"
RemoteAtStart ==
    [t \in Range(MART_TABLES) \cup {OutsidePath} |->
        IF t = OutsidePath THEN Holding({}) ELSE Absent]

\* dbt run: the mart tables as a function of the raw rows. arrival_history has
\* one record per distinct raw row, on_time_by_route_hour one row per mode
\* with its observation count, headway_stats one row per mode with its N - 1
\* headway samples, and no row with observation count 0.
Transform(rows) ==
    LET of(m) == {r \in rows : r.mode = m}
    IN  [t \in Range(MART_TABLES) |-> Holding(
            CASE t = "arrival_history" -> rows
              [] t = "on_time_by_route_hour" ->
                    {[mode |-> m, observation_count |-> Cardinality(of(m))] :
                        m \in {a \in Adapters : of(a) # {}}}
              [] t = "headway_stats" ->
                    {[mode |-> m, observation_count |-> Cardinality(of(m)) - 1] :
                        m \in {a \in Adapters : Cardinality(of(a)) > 1}})]

\* steps: the steps this run has executed; failed: the step that failed;
\* log: the line the run ended with; unchanged: this run's export() wrote
\* the files the exports directory already held; last: how the run before
\* this one ended its publish ("none" when it did not reach the commit).
IdleRun ==
    [pc |-> "idle", steps |-> <<>>, failed |-> "none", log |-> "none",
     unchanged |-> FALSE, base |-> NoFiles, clone |-> NoFiles, last |-> "none"]

NewRun(old) == [IdleRun EXCEPT !.pc = "dbt_run", !.last = old.last]

LastOf(step, log) ==
    CASE log = "info_pushed" -> "pushed"
      [] log = "info_no_changes" -> "no_changes"
      [] log = "error_git" /\ step = "push" -> "push_failed"
      [] OTHER -> "none"

\* The 'dbt_and_push' job comes due and fewer than max_instances runs of it
\* are in progress: job_dbt_and_push starts in slot s.
PublishTick(s) ==
    /\ proc = "running"
    /\ driver = "scheduler"
    /\ publishDue
    /\ Cardinality(Running(p)) < PublishMaxInstances
    /\ p[s].pc = "idle"
    /\ p' = [p EXCEPT ![s] = NewRun(p[s])]
    /\ publishDue' = FALSE
    /\ UNCHANGED <<fixedVars, proc, timeVars, collectDue, c, dataVars>>

\* The 'dbt_and_push' job comes due while max_instances runs are in progress.
PublishTickSkipped ==
    /\ proc = "running"
    /\ driver = "scheduler"
    /\ publishDue
    /\ Cardinality(Running(p)) >= PublishMaxInstances
    /\ publishDue' = FALSE
    /\ UNCHANGED <<fixedVars, proc, timeVars, collectDue, c, p, dataVars>>

\* "if result.returncode != 0: log.error(...); return"
AfterDbtFailureGoesOn == "continue"
AfterDbtFailure == "return"

\* "if not token: log.warning(...); return"
AfterTokenMissingGoesOn == "continue"
AfterTokenMissing == "return"

\* "if result.returncode == 0:" guards the push.
PushAfterCommitAlways(rc) == TRUE
PushAfterCommit(rc) == rc = 0

Did(r, step) == [r EXCEPT !.steps = Append(@, step)]

RunGoes(s, r, pc) == p' = [p EXCEPT ![s] = [r EXCEPT !.pc = pc]]

\* The run is over with `log` as its last log line; step is the step that
\* failed, or "none". The temporary directory of the clone is removed.
RunEnds(s, r, step, log) ==
    p' = [p EXCEPT ![s] =
            [r EXCEPT !.pc = "ended", !.failed = step, !.log = log,
                      !.unchanged = FALSE, !.base = NoFiles, !.clone = NoFiles,
                      !.last = LastOf(step, log)]]

\* job_dbt_and_push returns (or raises into the executor): its worker is free.
PublishReturns(s) ==
    /\ proc = "running"
    /\ p[s].pc = "ended"
    /\ p' = [p EXCEPT ![s] = [IdleRun EXCEPT !.last = p[s].last]]
    /\ UNCHANGED <<fixedVars, proc, timeVars, collectDue, publishDue, c, dataVars>>

\* The store is one DuckDB file. A round holds it open read-write from
\* "conn = get_db(DB_PATH)" to "conn.close()", and DuckDB lets no second
\* process open a file that a process holds read-write: the dbt subprocess
\* started meanwhile cannot open the store and exits non-zero.
StoreHeld == \E s \in CollectSlots : c[s].conn /\ c[s].pc \notin {"idle", "ended"}

\* The exit code of a dbt command is 0: its models ran (ok) on a store it
\* could open.
DbtExitsZero(ok) == ok /\ ~StoreHeld

\* 1. dbt run, then dbt test; a non-zero exit code ends the run.
DbtRun(s, ok) ==
    /\ proc = "running"
    /\ p[s].pc = "dbt_run"
    /\ marts' = IF DbtExitsZero(ok) THEN Transform(raw) ELSE marts
    /\ LET r == Did(p[s], "dbt_run")
       IN  IF DbtExitsZero(ok)
              THEN RunGoes(s, r, "dbt_test")
              ELSE IF AfterDbtFailure = "return"
                      THEN RunEnds(s, r, "dbt_run", "error_dbt")
                      ELSE RunGoes(s, [r EXCEPT !.failed = "dbt_run"], "dbt_test")
    /\ UNCHANGED <<fixedVars, proc, timeVars, collectDue, publishDue, c,
                   raw, exports, remote>>

DbtTest(s, ok) ==
    /\ proc = "running"
    /\ p[s].pc = "dbt_test"
    /\ LET r == Did(p[s], "dbt_test")
       IN  IF DbtExitsZero(ok)
              THEN RunGoes(s, r, "export")
              ELSE IF AfterDbtFailure = "return"
                      THEN RunEnds(s, r, "dbt_test", "error_dbt")
                      ELSE RunGoes(s, [r EXCEPT !.failed = "dbt_test"], "export")
    /\ UNCHANGED <<fixedVars, proc, timeVars, collectDue, publishDue, c, dataVars>>

\* export() of export_for_replit.py: COPY <table> TO exports/<table>.parquet
\* for the first k tables of TABLES; the k+1st COPY raises when k < Len(TABLES).
Exported(files, tables, k) ==
    [t \in DOMAIN files |->
        IF t \in {TABLES[j] : j \in 1..k} THEN tables[t] ELSE files[t]]

\* The tables of the store after the first k COPY ... TO statements of
\* export(), which runs on duckdb.connect(DB_PATH, read_only=True).
StoreAfterExportMoved(tables, k) ==
    [t \in DOMAIN tables |->
        IF t \in {TABLES[j] : j \in 1..k} THEN Absent ELSE tables[t]]
StoreAfterExport(tables, k) == tables

\* 2. export(): the COPY of a table that does not exist raises; an exception
\* is logged and ends the run.
Export(s, k) ==
    /\ proc = "running"
    /\ p[s].pc = "export"
    /\ k \in 0..Len(TABLES)
    /\ \A j \in 1..k : marts[TABLES[j]].exists
    /\ exports' = Exported(exports, marts, k)
    /\ marts' = StoreAfterExport(marts, k)
    /\ LET r == Did(p[s], "export")
       IN  IF k = Len(TABLES)
              THEN RunGoes(s, [r EXCEPT !.unchanged = (exports' = exports)], "token")
              ELSE RunEnds(s, r, "export", "error_export")
    /\ UNCHANGED <<fixedVars, proc, timeVars, collectDue, publishDue, c,
                   raw, remote>>

\* 3. token = os.environ.get("GH_TOKEN"): without it the run ends here.
Token(s) ==
    /\ proc = "running"
    /\ p[s].pc = "token"
    /\ IF env.ghToken \/ AfterTokenMissing # "return"
          THEN RunGoes(s, p[s], "clone")
          ELSE RunEnds(s, p[s], p[s].failed, "warn_no_token")
    /\ UNCHANGED <<fixedVars, proc, timeVars, collectDue, publishDue, c, dataVars>>

\* git clone --depth=1 (check=True): the clone holds the branch head.
Clone(s, ok) ==
    /\ proc = "running"
    /\ p[s].pc = "clone"
    /\ LET r == Did(p[s], "clone")
       IN  IF ok
              THEN RunGoes(s, [r EXCEPT !.base = remote, !.clone = remote], "copy")
              ELSE RunEnds(s, r, "clone", "error_git")
    /\ UNCHANGED <<fixedVars, proc, timeVars, collectDue, publishDue, c, dataVars>>

\* for f in exports_src.glob("*.parquet"): shutil.copy(f, tmp/exports/f.name)
CopiedOverTree(clone, files) ==
    [t \in DOMAIN clone |->
        IF t \in DOMAIN files /\ files[t].exists THEN files[t] ELSE Absent]
Copied(clone, files) ==
    [t \in DOMAIN clone |->
        IF t \in DOMAIN files /\ files[t].exists THEN files[t] ELSE clone[t]]

\* The copy; an OSError it raises is not a CalledProcessError: it leaves the
\* job and the scheduler's executor logs it.
Copy(s, ok) ==
    /\ proc = "running"
    /\ p[s].pc = "copy"
    /\ LET r == Did(p[s], "copy")
       IN  IF ok
              THEN RunGoes(s, [r EXCEPT !.clone = Copied(@, exports)], "git_add")
              ELSE RunEnds(s, r, "copy", "job_raised")
    /\ UNCHANGED <<fixedVars, proc, timeVars, collectDue, publishDue, c, dataVars>>

\* git config user.email, git config user.name, git add exports/ (check=True).
GitAdd(s, ok) ==
    /\ proc = "running"
    /\ p[s].pc = "git_add"
    /\ LET r == Did(p[s], "git_add")
       IN  IF ok
              THEN RunGoes(s, r, "commit")
              ELSE RunEnds(s, r, "git_add", "error_git")
    /\ UNCHANGED <<fixedVars, proc, timeVars, collectDue, publishDue, c, dataVars>>

\* The exit code of git commit: 0 when it made a commit, 1 when there was
\* nothing to commit or when it failed.
CommitCodes(r) == IF r.clone = r.base THEN {1} ELSE {0, 1}

\* git commit (no check=True), then the branch on its exit code.
Commit(s, rc) ==
    /\ proc = "running"
    /\ p[s].pc = "commit"
    /\ rc \in CommitCodes(p[s])
    /\ LET r == Did(p[s], "commit")
           step == IF rc # 0 /\ r.clone # r.base THEN "commit" ELSE r.failed
       IN  IF PushAfterCommit(rc)
              THEN RunGoes(s, [r EXCEPT !.failed = step], "push")
              ELSE RunEnds(s, r, step, "info_no_changes")
    /\ UNCHANGED <<fixedVars, proc, timeVars, collectDue, publishDue, c, dataVars>>

\* git push (check=True).
Push(s, ok) ==
    /\ proc = "running"
    /\ p[s].pc = "push"
    /\ remote' = IF ok THEN p[s].clone ELSE remote
    /\ LET r == Did(p[s], "push")
       IN  IF ok
              THEN RunEnds(s, r, r.failed, "info_pushed")
              ELSE RunEnds(s, r, "push", "error_git")
    /\ UNCHANGED <<fixedVars, proc, timeVars, collectDue, publishDue, c,
                   raw, marts, exports>>

\* ---- the system -----------------------------------------------------------------
\* The configurations collect_loop is started with: every station count with
\* the longest stop list, every stop count with the longest station list, and
\* each API key missing in turn.
StopCounts == {0, 1, MaxStops}

LoopSetups ==
    {[nStations |-> n, nStops |-> MaxStops, trainKey |-> TRUE, busKey |-> TRUE] :
        n \in 0..MaxStations}
    \cup {[nStations |-> MaxStations, nStops |-> m, trainKey |-> TRUE,
           busKey |-> TRUE] : m \in StopCounts}
    \cup {[nStations |-> MaxStations, nStops |-> MaxStops, trainKey |-> k,
           busKey |-> ~k] : k \in BOOLEAN}

\* The configuration the scheduler of server.py is started with: one station
\* and no bus stop. Under the scheduler the rounds run beside the publish
\* job, and collect_once is the code the loop runs with every configuration.
SchedulerSetups ==
    {[nStations |-> 1, nStops |-> 0, trainKey |-> TRUE, busKey |-> TRUE]}

SetupsOf(d) == IF d = "loop" THEN LoopSetups ELSE SchedulerSetups

Init ==
    /\ driver \in {"scheduler", "loop"}
    /\ \E u \in SetupsOf(driver), tok \in BOOLEAN :
          /\ config = [nStations |-> u.nStations, nStops |-> u.nStops]
          /\ env = [trainKey |-> u.trainKey, busKey |-> u.busKey, ghToken |-> tok]
    /\ proc = "running"
    /\ phase = 0
    /\ pubPhase = 0
    /\ collectDue = (driver = "scheduler")
    /\ publishDue = (driver = "scheduler")
    /\ sleepLeft = 0
    /\ sinceStart = Interval
    /\ c = [s \in CollectSlots |-> IdleRound]
    /\ p = [s \in PublishSlots |-> IdleRun]
    /\ raw = {}
    /\ marts = NoFiles
    /\ exports = NoFiles
    /\ remote = RemoteAtStart
    /\ input = NoCall
    /\ output = NoCall

Collect ==
    \E s \in CollectSlots :
        \/ CollectTick(s)
        \/ \E ok \in BOOLEAN : LoadConfig(s, ok) \/ GetDb(s, ok)
        \/ TrainEnter(s)
        \/ BusEnter(s)
        \/ \E resp \in Responses, ok \in BOOLEAN :
              TrainRequest(s, resp, ok) \/ BusRequest(s, resp, ok)
        \/ CloseConn(s)
        \/ CollectReturns(s)

Publish ==
    \E s \in PublishSlots :
        \/ PublishTick(s)
        \/ \E ok \in BOOLEAN :
              \/ DbtRun(s, ok)
              \/ DbtTest(s, ok)
              \/ Clone(s, ok)
              \/ Copy(s, ok)
              \/ GitAdd(s, ok)
              \/ Push(s, ok)
        \/ \E k \in 0..Len(TABLES) : Export(s, k)
        \/ Token(s)
        \/ \E rc \in {0, 1} : Commit(s, rc)
        \/ PublishReturns(s)

Next ==
    \/ Advance
    \/ CollectTickSkipped
    \/ PublishTickSkipped
    \/ LoopStart
    \/ Collect
    \/ Publish

Spec == Init /\ [][Next]_vars

\* The scheduler thread processes every job that is due, time passes, and
\* every step of a collection round returns (each request carries
\* timeout=10). Nothing is assumed of the steps of the publish job.
CollectTicks == \E s \in CollectSlots : CollectTick(s)
PublishTicks == \E s \in PublishSlots : PublishTick(s)

Fairness ==
    /\ WF_vars(Advance)
    /\ WF_vars(CollectTickSkipped)
    /\ WF_vars(PublishTickSkipped)
    /\ WF_vars(PublishTicks)
    /\ WF_vars(LoopStart)
    /\ WF_vars(Collect)

LiveSpec == Init /\ [][Next]_vars /\ Fairness

\* ---- the start of the collector process (__main__) -----------------------------
\* server.py: "try: ... open(config.yml) ... except Exception: poll_interval = 60",
\* after which both jobs are added and the scheduler starts.
AfterConfigUnreadable == "running"

\* collect_data.py --loop: "cfg = load_config()" outside any try.
LoopAfterConfigUnreadable == "dead"

StartInputs == {[kind |-> "startup", readable |-> b] : b \in BOOLEAN}

InitStart ==
    /\ driver \in {"scheduler", "loop"}
    /\ \E u \in SetupsOf(driver), tok \in BOOLEAN :
          /\ config = [nStations |-> u.nStations, nStops |-> u.nStops]
          /\ env = [trainKey |-> u.trainKey, busKey |-> u.busKey, ghToken |-> tok]
    /\ proc = "starting"
    /\ phase = 0
    /\ pubPhase = 0
    /\ collectDue = (driver = "scheduler")
    /\ publishDue = (driver = "scheduler")
    /\ sleepLeft = 0
    /\ sinceStart = Interval
    /\ c = [s \in CollectSlots |-> IdleRound]
    /\ p = [s \in PublishSlots |-> IdleRun]
    /\ raw = {}
    /\ marts = NoFiles
    /\ exports = NoFiles
    /\ remote = RemoteAtStart
    /\ input \in StartInputs
    /\ output = NoCall

\* The statements of __main__ up to scheduler.start() / collect_loop(interval).
Startup ==
    /\ proc = "starting"
    /\ proc' = IF input.readable THEN "running"
               ELSE IF driver = "scheduler" THEN AfterConfigUnreadable
               ELSE LoopAfterConfigUnreadable
    /\ UNCHANGED <<fixedVars, timeVars, collectDue, publishDue, c, p, dataVars>>

NextStart ==
    \/ Startup
    \/ Next

StartSpec == InitStart /\ [][NextStart]_vars

\* ---- JSON values of an upstream answer -----------------------------------------
\* A string is the sequence of its characters.
JStr(chars) == [json |-> "string", chars |-> chars, n |-> 0]
JNull == [json |-> "null", chars |-> <<>>, n |-> 0]
JNum(n) == [json |-> "number", chars |-> <<>>, n |-> n]
JBool(b) == [json |-> "bool", chars |-> <<>>, n |-> IF b THEN 1 ELSE 0]

\* Python's "not v" for a value of an answer.
Falsy(v) ==
    \/ v.json = "null"
    \/ v.json = "string" /\ v.chars = <<>>
    \/ v.json \in {"number", "bool"} /\ v.n = 0

\* d.get(key, default) of a JSON object d.
Get(d, key, default) == IF key \in DOMAIN d THEN d[key] ELSE default

\* ---- the Timestamp Normalizer (_parse_cta_timestamp) ------------------------------
DigitChars == <<"0", "1", "2", "3", "4", "5", "6", "7", "8", "9">>

IsDigit(ch) == \E k \in 1..10 : DigitChars[k] = ch

DigitVal(ch) == (CHOOSE k \in 1..10 : DigitChars[k] = ch) - 1

Whitespace == {" ", "\t"}

\* The number a run of digits denotes, or -1.
RECURSIVE NumVal(_)
NumVal(tok) ==
    IF tok = <<>> THEN 0
    ELSE LET n == Len(tok)
             head == NumVal(SubSeq(tok, 1, n - 1))
         IN  IF head < 0 \/ ~IsDigit(tok[n]) THEN -1 ELSE 10 * head + DigitVal(tok[n])

\* The directives of strptime: the value of a token the directive's regular
\* expression matches, or -1.
\*   %Y \d\d\d\d              %m 1[0-2]|0[1-9]|[1-9]
\*   %d 3[01]|[12]\d|0[1-9]|[1-9]| [1-9]
\*   %H 2[0-3]|[0-1]\d|\d     %M [0-5]\d|\d      %S 6[0-1]|[0-5]\d|\d
TokenValue(f, tok) ==
    LET v == NumVal(tok)
        two == Len(tok) = 2 /\ v >= 0
        one == Len(tok) = 1 /\ v >= 0
    IN  CASE f = "Y" -> IF Len(tok) = 4 THEN v ELSE -1
          [] f = "m" -> IF (two /\ v \in 1..12) \/ (one /\ v >= 1) THEN v ELSE -1
          [] f = "d" ->
                IF (two /\ v \in 1..31) \/ (one /\ v >= 1) THEN v
                ELSE IF Len(tok) = 2 /\ tok[1] = " " /\ NumVal(<<tok[2]>>) >= 1
                        THEN NumVal(<<tok[2]>>)
                        ELSE -1
          [] f = "H" -> IF (two /\ v <= 23) \/ one THEN v ELSE -1
          [] f = "M" -> IF (two /\ v <= 59) \/ one THEN v ELSE -1
          [] f = "S" -> IF (two /\ v <= 61) \/ one THEN v ELSE -1

\* The lengths of the alternatives of a directive, in the order the regular
\* expression tries them.
TokenLens(f) == IF f = "Y" THEN <<4>> ELSE <<2, 1>>

Directive(f) == [t |-> "field", f |-> f, ch |-> ""]
Literal(ch) == [t |-> "lit", f |-> "", ch |-> ch]
Spaces == [t |-> "ws", f |-> "", ch |-> ""]

\* "%Y-%m-%dT%H:%M:%S"
IsoFormat ==
    <<Directive("Y"), Literal("-"), Directive("m"), Literal("-"), Directive("d"),
      Literal("T"), Directive("H"), Literal(":"), Directive("M"), Literal(":"),
      Directive("S")>>

\* "%Y%m%d %H:%M": a blank of the format stands for \s+
CompactFormat ==
    <<Directive("Y"), Directive("m"), Directive("d"), Spaces, Directive("H"),
      Literal(":"), Directive("M")>>

\* The format's expression is compiled with re.IGNORECASE.
SameChar(ch, lit) == ch = lit \/ (lit = "T" /\ ch = "t")

NoMatch == [ok |-> FALSE, end |-> 0, vals |-> <<>>]

\* The longest run of whitespace of s from pos on.
RECURSIVE SpaceRun(_, _)
SpaceRun(s, pos) ==
    IF pos <= Len(s) /\ s[pos] \in Whitespace THEN 1 + SpaceRun(s, pos + 1) ELSE 0

\* re.match of the format's expression from item k on at position pos: the
\* first match in the order of the alternatives, with backtracking.
RECURSIVE Match(_, _, _, _, _)
Match(s, pos, fmt, k, vals) ==
    IF k > Len(fmt) THEN [ok |-> TRUE, end |-> pos, vals |-> vals]
    ELSE LET it == fmt[k]
             rest(n, v) ==
                 IF v < 0 THEN NoMatch
                 ELSE Match(s, pos + n, fmt, k + 1, Append(vals, v))
             try(n) ==
                 IF pos + n - 1 > Len(s) THEN NoMatch
                 ELSE LET with(v) == rest(n, v)
                      IN  Bind(TokenValue(it.f, SubSeq(s, pos, pos + n - 1)), with)
             lens == TokenLens(it.f)
             orSecond(first) ==
                 IF first.ok \/ Len(lens) = 1 THEN first ELSE try(lens[2])
         IN  CASE it.t = "lit" ->
                    IF pos <= Len(s) /\ SameChar(s[pos], it.ch)
                        THEN Match(s, pos + 1, fmt, k + 1, vals)
                        ELSE NoMatch
               [] it.t = "ws" ->
                    IF SpaceRun(s, pos) = 0 THEN NoMatch
                    ELSE Match(s, pos + SpaceRun(s, pos), fmt, k + 1, vals)
               [] it.t = "field" ->
                    Bind(try(lens[1]), orSecond)

IsLeap(y) == y % 4 = 0 /\ (y % 100 # 0 \/ y % 400 = 0)

DaysIn(y, mo) ==
    CASE mo \in {4, 6, 9, 11} -> 30
      [] mo = 2 -> IF IsLeap(y) THEN 29 ELSE 28
      [] OTHER -> 31

\* The checks of the datetime constructor.
ValidFields(f) ==
    /\ f.y \in 1..9999
    /\ f.mo \in 1..12
    /\ f.d \in 1..DaysIn(f.y, f.mo)
    /\ f.h \in 0..23
    /\ f.mi \in 0..59
    /\ f.s \in 0..59

Fields(y, mo, d, h, mi, s) == [y |-> y, mo |-> mo, d |-> d, h |-> h, mi |-> mi, s |-> s]

Instant(f) == [kind |-> "instant", at |-> f]
None == [kind |-> "none", at |-> Fields(0, 0, 0, 0, 0, 0)]
Raised(e) == [kind |-> e, at |-> Fields(0, 0, 0, 0, 0, 0)]

\* datetime.strptime(s, fmt): the instant, or ValueError when the expression
\* does not match, when data remains unconverted, or when the fields are no
\* date and time.
Strptime(s, fmt) ==
    LET f(v) == Fields(v[1], v[2], v[3], v[4], v[5], IF Len(v) > 5 THEN v[6] ELSE 0)
        of(m) ==
            IF m.ok /\ m.end = Len(s) + 1 /\ ValidFields(f(m.vals))
                THEN Instant(f(m.vals))
                ELSE Raised("ValueError")
    IN  Bind(Match(s, 1, fmt, 1, <<>>), of)

\* A falsy argument gives None; strptime of a value that is no string raises
\* TypeError, which "except ValueError" does not catch; else the formats in
\* their order.
parse_cta_timestamp(v) ==
    LET second(compact) == IF compact.kind = "instant" THEN compact ELSE None
        first(iso) ==
            IF iso.kind = "instant" THEN iso
            ELSE Bind(Strptime(v.chars, CompactFormat), second)
    IN  IF Falsy(v) THEN None
        ELSE IF v.json # "string" THEN Raised("TypeError")
        ELSE Bind(Strptime(v.chars, IsoFormat), first)

\* ---- timestamps to parse --------------------------------------------------------
Years == {2024, 2026}
Months == {2, 12, 13}
Days == {1, 29, 30}
Hours == {4, 24}
Minutes == {43, 60}
Seconds == {8, 60}

FieldTuples ==
    {Fields(y, mo, d, h, mi, sec) :
        y \in Years, mo \in Months, d \in Days, h \in Hours, mi \in Minutes,
        sec \in Seconds}

Pad2(n) == <<DigitChars[((n \div 10) % 10) + 1], DigitChars[(n % 10) + 1]>>
Pad4(n) == Pad2(n \div 100) \o Pad2(n % 100)
Digits(n, padded) == IF padded \/ n > 9 THEN Pad2(n) ELSE <<DigitChars[n + 1]>>

\* 2026-02-26T14:43:08, and the same with fields that are not zero-padded.
RenderIso(f, padded, sep) ==
    Pad4(f.y) \o <<"-">> \o Digits(f.mo, padded) \o <<"-">> \o Digits(f.d, padded)
        \o <<sep>> \o Digits(f.h, padded) \o <<":">> \o Digits(f.mi, padded)
        \o <<":">> \o Digits(f.s, padded)

\* 20260226 14:43
RenderCompact(f, sep) ==
    Pad4(f.y) \o Pad2(f.mo) \o Pad2(f.d) \o sep \o Pad2(f.h) \o <<":">> \o Pad2(f.mi)

ATime == Fields(2026, 2, 26, 14, 43, 8)

\* Strings in neither format.
OtherStrings ==
    {<<>>,
     <<"s", "o", "o", "n">>,
     RenderIso(ATime, TRUE, "T") \o <<"Z">>,
     RenderIso(ATime, TRUE, " "),
     SubSeq(RenderIso(ATime, TRUE, "T"), 1, 10),
     RenderCompact(ATime, <<>>),
     RenderCompact(ATime, <<" ">>) \o <<":", "0", "8">>,
     <<" ">> \o RenderCompact(ATime, <<" ">>),
     Pad4(2026) \o <<"1", "1", " ", "1", "4", ":", "4", "3">>}

\* What an adapter passes to the normalizer: v the value of the field (None
\* for a field the record does not have), fmt the format v is written in,
\* at the fields v was written from.
TimestampInputs ==
    {[kind |-> "timestamp", v |-> JStr(RenderIso(f, pad, "T")), fmt |-> "iso", at |-> f] :
        f \in FieldTuples, pad \in BOOLEAN}
    \cup {[kind |-> "timestamp", v |-> JStr(RenderCompact(f, <<" ">>)), fmt |-> "compact",
           at |-> [f EXCEPT !.s = 0]] : f \in FieldTuples}
    \cup {[kind |-> "timestamp", v |-> JStr(str), fmt |-> "other", at |-> None.at] :
            str \in OtherStrings}
    \cup {[kind |-> "timestamp", v |-> v, fmt |-> "other", at |-> None.at] :
            v \in {JNull, JNum(0), JNum(20260226), JBool(TRUE), JBool(FALSE)}}

\* ---- the specification of the Timestamp Normalizer --------------------------------
\* The collector at rest: no round, no run, empty stores.
AtRest ==
    /\ driver = "loop"
    /\ config = [nStations |-> 0, nStops |-> 0]
    /\ env = [trainKey |-> FALSE, busKey |-> FALSE, ghToken |-> FALSE]
    /\ proc = "running"
    /\ phase = 0
    /\ pubPhase = 0
    /\ collectDue = FALSE
    /\ publishDue = FALSE
    /\ sleepLeft = 0
    /\ sinceStart = Interval
    /\ c = [s \in CollectSlots |-> IdleRound]
    /\ p = [s \in PublishSlots |-> IdleRun]
    /\ raw = {}
    /\ marts = NoFiles
    /\ exports = NoFiles
    /\ remote = RemoteAtStart

restVars ==
    <<driver, config, env, proc, phase, pubPhase, collectDue, publishDue,
      sleepLeft, sinceStart, c, p, marts, exports, remote>>

InitParser ==
    /\ AtRest
    /\ input \in TimestampInputs
    /\ output = NoCall

\* _parse_cta_timestamp(eta.get("arrT")) while the row is built.
ParseTimestamp ==
    /\ input.kind = "timestamp"
    /\ output = NoCall
    /\ output' = parse_cta_timestamp(input.v)
    /\ UNCHANGED <<restVars, raw, input>>

\* The row with the parsed value is inserted; an exception of the parser has
\* left the adapter before the insert.
StoreTimestamp ==
    /\ input.kind = "timestamp"
    /\ output.kind \in {"instant", "none"}
    /\ raw = {}
    /\ raw' = {[predicted_arrival |-> output]}
    /\ UNCHANGED <<restVars, input, output>>

NextParser == ParseTimestamp \/ StoreTimestamp

ParserSpec == InitParser /\ [][NextParser]_vars

\* ---- the rows an adapter builds from one answer --------------------------------
MaxRecords == 2

\* The keys of a record of an answer: of an eta of the Train Tracker, of a
\* prd of the Bus Tracker.
Keys(mode) ==
    IF mode = "rail"
        THEN [id |-> "rn", route |-> "rt", stop |-> "stpId", time |-> "arrT"]
        ELSE [id |-> "vid", route |-> "rt", stop |-> "stpid", time |-> "prdtm"]

\* Stands for a key the record does not have.
KeyAbsent == [json |-> "absent", chars |-> <<>>, n |-> 0]

\* The record of an answer with the values vals, without the absent keys.
UpstreamRecord(mode, vals) ==
    LET has == {f \in DOMAIN vals : vals[f] # KeyAbsent}
    IN  [k \in {Keys(mode)[f] : f \in has} |->
            vals[CHOOSE f \in has : Keys(mode)[f] = k]]

Red == JStr(<<"R", "e", "d">>)
Blue == JStr(<<"B", "l", "u", "e">>)
RouteValues == {KeyAbsent, JNull, JStr(<<>>), Red, Blue}
Stop30 == JStr(<<"3", "0">>)
StopValues == {KeyAbsent, JNull, JStr(<<>>), Stop30}

\* The route and the stop id of a record: every value of the one beside a
\* good value of the other.
RouteAndStop ==
    {[rt |-> rt, stp |-> Stop30] : rt \in RouteValues}
        \cup {[rt |-> Red, stp |-> stp] : stp \in StopValues}

\* The answers to one request: up to MaxRecords records, the k-th with run
\* number or vehicle id k.
RecordsOf(mode, n) ==
    {[k \in 1..n |-> UpstreamRecord(mode,
            [id |-> JNum(k), route |-> q[k].rt, stop |-> q[k].stp,
             time |-> JStr(RenderIso(ATime, TRUE, "T"))])] :
        q \in [1..n -> RouteAndStop]}

\* allow: the route allow-list configured for the adapter.
AdapterInputs ==
    UNION {{[kind |-> "answer", mode |-> m, allow |-> a, records |-> r] :
                a \in SUBSET {Red, Blue},
                r \in UNION {RecordsOf(m, n) : n \in 0..MaxRecords}} :
            m \in Adapters}

\* fetch_train_arrivals, "for eta in etas": the filter and the row.
TrainKept(eta, routes_filter) ==
    ~(routes_filter # {} /\ Get(eta, "rt", JStr(<<>>)) \notin routes_filter)

TrainRow(eta) ==
    [mode |-> "rail",
     id |-> Get(eta, "rn", JNull),
     route |-> Get(eta, "rt", JStr(<<>>)),
     stop_id |-> Get(eta, "stpId", JNull),
     predicted_arrival |-> parse_cta_timestamp(Get(eta, "arrT", JNull))]

\* fetch_bus_predictions, "for prd in predictions": the row; no filter.
BusRow(prd) ==
    [mode |-> "bus",
     id |-> Get(prd, "vid", JNull),
     route |-> Get(prd, "rt", JNull),
     stop_id |-> Get(prd, "stpid", JNull),
     predicted_arrival |-> parse_cta_timestamp(Get(prd, "prdtm", JNull))]

\* "rows.append((...))" for every record in its order.
RECURSIVE RowsAppended(_, _)
RowsAppended(mode, records) ==
    IF records = <<>> THEN <<>>
    ELSE <<IF mode = "rail" THEN TrainRow(Head(records)) ELSE BusRow(Head(records))>>
             \o RowsAppended(mode, Tail(records))

TrainRows(etas, routes_filter) ==
    LET kept(eta) == TrainKept(eta, routes_filter)
    IN  RowsAppended("rail", SelectSeq(etas, kept))

BusRows(predictions) == RowsAppended("bus", predictions)

\* routes_filter = set(config.get("train_routes", [])); the bus adapter reads
\* no allow-list.
RowsBuilt(in) ==
    IF in.mode = "rail" THEN TrainRows(in.records, in.allow) ELSE BusRows(in.records)

\* ---- the specification of the rows of one answer ----------------------------------
InitAdapter ==
    /\ AtRest
    /\ input \in AdapterInputs
    /\ output = NoCall

\* The loop over the records of the answer; an exception of the normalizer
\* leaves the adapter.
BuildRows ==
    /\ input.kind = "answer"
    /\ output = NoCall
    /\ LET out(rows) ==
               IF \E k \in 1..Len(rows) :
                      rows[k].predicted_arrival.kind \notin {"instant", "none"}
                   THEN [kind |-> "raised", rows |-> <<>>]
                   ELSE [kind |-> "rows", rows |-> rows]
       IN  output' = Bind(RowsBuilt(input), out)
    /\ UNCHANGED <<restVars, raw, input>>

\* "if rows: conn.executemany(INSERT ...)"
InsertRows ==
    /\ input.kind = "answer"
    /\ output.kind = "rows"
    /\ raw' = IF output.rows # <<>> THEN Appended(raw, Range(output.rows)) ELSE raw
    /\ output' = [output EXCEPT !.kind = "inserted"]
    /\ UNCHANGED <<restVars, input>>

NextAdapter == BuildRows \/ InsertRows

AdapterSpec == InitAdapter /\ [][NextAdapter]_vars

\* ---- the dashboard script (app/streamlit_app.py) ---------------------------------
\* The script runs top to bottom on every page load. Its data source is the
\* store's mart tables (DATA_SOURCE "duckdb") or the exported files ("parquet").
\* A headway_stats row is reduced to its stop and its collected date, an
\* arrival_history row to its stop; mode, route and stop are chosen together.
MaxDates == 2

DashStops == {"30", "31"}
Dates == 1..MaxDates
HeadwayRows == [stop : DashStops, collected_date : Dates]
ArrivalRows == [stop : DashStops]
OnTimeRows == {[mode |-> "rail"]}

TableStates(rows) == {Absent} \cup {Holding(x) : x \in SUBSET rows}

\* "time_window": "All time" keeps every date, "Last 7 days" the latest.
TimeWindows == {"All time", "Last 7 days"}
InWindow(d, w) == w = "All time" \/ d = MaxDates

DashboardInputs ==
    {[kind |-> "page_load", source |-> src, opens |-> o,
      files |-> [t \in Range(MART_TABLES) |->
                    CASE t = "headway_stats" -> h
                      [] t = "arrival_history" -> a
                      [] OTHER -> ot]] :
        src \in {"duckdb", "parquet"}, o \in BOOLEAN,
        h \in TableStates(HeadwayRows), a \in TableStates(ArrivalRows),
        ot \in TableStates(OnTimeRows)}

Page(pc, shown) ==
    [kind |-> "page", pc |-> pc, shown |-> shown, error |-> "",
     selected |-> "", window |-> "", heatmap_df |-> {}]

InitDashboard ==
    /\ AtRest
    /\ input \in DashboardInputs
    /\ output = Page("connect", {})

\* "try: conn = get_connection() except Exception as e: st.error(...); st.stop()";
\* the in-memory connection of the parquet mode always opens.
GetConnection ==
    /\ input.kind = "page_load"
    /\ output.pc = "connect"
    /\ output' = IF input.source = "duckdb" /\ ~input.opens
                 THEN [output EXCEPT !.pc = "stopped",
                                     !.shown = @ \cup {"could_not_open"}]
                 ELSE [output EXCEPT !.pc = "guard"]
    /\ UNCHANGED <<restVars, raw, input>>

\* "if not has_table(conn, "headway_stats"): st.warning(...); st.stop()"
HeadwayGuard ==
    /\ input.kind = "page_load"
    /\ output.pc = "guard"
    /\ output' = IF DashboardStopsNoData(input.files)
                 THEN [output EXCEPT !.pc = "stopped",
                                     !.shown = @ \cup {"no_data"}]
                 ELSE [output EXCEPT !.pc = "sidebar"]
    /\ UNCHANGED <<restVars, raw, input>>

\* The sidebar. The select boxes offer the stops of headway_stats; with no row
\* the lists are empty, every selectbox returns None and
\* "stop_ids[stop_labels.index(selected_stop_label)]" raises ValueError.
StopOptions(files) == {r.stop : r \in files["headway_stats"].content}

Sidebar ==
    /\ input.kind = "page_load"
    /\ output.pc = "sidebar"
    /\ IF StopOptions(input.files) = {}
       THEN output' = [output EXCEPT !.pc = "error", !.error = "ValueError"]
       ELSE \E stop \in StopOptions(input.files), w \in TimeWindows :
                output' = [output EXCEPT !.pc = "load", !.selected = stop,
                                         !.window = w]
    /\ UNCHANGED <<restVars, raw, input>>

\* heatmap_df / trend_df: the rows of the selected stop inside the filters.
LoadHeadway ==
    /\ input.kind = "page_load"
    /\ output.pc = "load"
    /\ output' = [output EXCEPT
           !.pc = "heatmap",
           !.heatmap_df = {r \in input.files["headway_stats"].content :
                              /\ r.stop = output.selected
                              /\ InWindow(r.collected_date, output.window)},
           !.shown = @ \cup {"summary"}]
    /\ UNCHANGED <<restVars, raw, input>>

\* "if heatmap_df.empty: st.info("No headway data yet ...") else: ... plotly_chart"
Heatmap ==
    /\ input.kind = "page_load"
    /\ output.pc = "heatmap"
    /\ output' = [output EXCEPT
           !.pc = "trend",
           !.shown = @ \cup {IF output.heatmap_df = {} THEN "no_headway"
                                                       ELSE "heatmap"}]
    /\ UNCHANGED <<restVars, raw, input>>

\* "if trend_df.empty or len(trend_df) < 2: st.info(...) else: ... plotly_chart";
\* trend_df has one row per collected date.
Trend ==
    /\ input.kind = "page_load"
    /\ output.pc = "trend"
    /\ output' = [output EXCEPT
           !.pc = "recent",
           !.shown = @ \cup
               {IF Cardinality({r.collected_date : r \in output.heatmap_df}) < 2
                THEN "no_trend" ELSE "trend"}]
    /\ UNCHANGED <<restVars, raw, input>>

\* The recent arrivals table. The query selects six columns, none of them
\* is_delayed, so "recent_df.drop(columns=["is_delayed"])" raises KeyError
\* whenever recent_df has a row.
RecentArrivals ==
    /\ input.kind = "page_load"
    /\ output.pc = "recent"
    /\ LET recent_df == {r \in input.files["arrival_history"].content :
                            r.stop = output.selected}
       IN  output' =
               IF ~HasTable(input.files, "arrival_history")
               THEN [output EXCEPT !.pc = "done",
                                   !.shown = @ \cup {"no_arrival_table"}]
               ELSE IF recent_df = {}
               THEN [output EXCEPT !.pc = "done",
                                   !.shown = @ \cup {"no_recent"}]
               ELSE [output EXCEPT !.pc = "error", !.error = "KeyError"]
    /\ UNCHANGED <<restVars, raw, input>>

NextDashboard ==
    \/ GetConnection
    \/ HeadwayGuard
    \/ Sidebar
    \/ LoadHeadway
    \/ Heatmap
    \/ Trend
    \/ RecentArrivals

DashboardSpec == InitDashboard /\ [][NextDashboard]_vars

\* ---- the History Reducer (the arrival_history model that 'dbt run' builds) -------
\* A raw prediction as the reducer reads it: its group (mode, route, stop,
\* destination), its predicted-arrival instant and the instant it was
\* collected, both in minutes.
MaxRaw == 3
MaxInstant == 3

\* Predictions whose instants round to the same multiple are one event.
Granularity == 2

Destinations == {"Howard", "Loop"}
Instants == 0..MaxInstant
Polls == 0..1

RawPredictions ==
    [mode : {"rail"}, route : {"Red"}, stop : {"30"}, destination : Destinations,
     predicted_arrival : Instants, collected_at : Polls]

RECURSIVE WindowsUpTo(_)
WindowsUpTo(n) ==
    IF n = 0 THEN {{}}
    ELSE LET smaller == WindowsUpTo(n - 1)
         IN  smaller \cup {w \cup {r} : w \in smaller, r \in RawPredictions}

ReducerInputs == {[kind |-> "raw_window", rows |-> w] : w \in WindowsUpTo(MaxRaw)}

Rounded(t) == (t \div Granularity) * Granularity

DedupKey(r) ==
    <<r.mode, r.route, r.stop, r.destination, Rounded(r.predicted_arrival)>>

\* The authoritative prediction of a cluster: the one issued last, and of
\* those the one with the latest predicted arrival.
Later(a, b) ==
    \/ a.collected_at > b.collected_at
    \/ /\ a.collected_at = b.collected_at
       /\ a.predicted_arrival >= b.predicted_arrival

Authoritative(cluster) == CHOOSE a \in cluster : \A b \in cluster : Later(a, b)

\* One ArrivalHistoryRecord per cluster of the window.
Reduce(rows) ==
    {Authoritative({b \in rows : DedupKey(b) = DedupKey(a)}) : a \in rows}

\* The table after the records of a pass are written: a record replaces
\* the records of its dedup key (upsert), against a plain insert.
BlindInsert(table, recs) == table (+) SetToBag(recs)
Upsert(table, recs) ==
    LET keys == {DedupKey(r) : r \in recs}
        kept == {r \in DOMAIN table : DedupKey(r) \notin keys}
    IN  [r \in kept |-> table[r]] (+) SetToBag(recs)

MaxPasses == 2

History(table, passes, first) ==
    [kind |-> "history", table |-> table, passes |-> passes, first |-> first]

InitReducer ==
    /\ AtRest
    /\ input \in ReducerInputs
    /\ output = History(EmptyBag, 0, EmptyBag)

\* One reduction pass over the window ('dbt run' exits 0); first keeps the
\* table as the first pass left it.
ReductionPass ==
    /\ input.kind = "raw_window"
    /\ output.kind = "history"
    /\ output.passes < MaxPasses
    /\ LET table == Upsert(output.table, Reduce(input.rows))
       IN  output' = History(table, output.passes + 1,
                             IF output.passes = 0 THEN table ELSE output.first)
    /\ UNCHANGED <<restVars, raw, input>>

NextReducer == ReductionPass

ReducerSpec == InitReducer /\ [][NextReducer]_vars

\* ---- the Aggregator (the headway_stats model that 'dbt run' builds) --------------
\* A series: the predicted-arrival instants, in minutes, of the
\* ArrivalHistoryRecords of one (mode, route, stop, direction).
MaxTime == 7

\* The minutes of one hour bucket.
HourLen == 3

SeriesInputs == {[kind |-> "series", events |-> e] : e \in SUBSET (0..MaxTime)}

\* The events in the order of their predicted arrival.
RECURSIVE SortedEvents(_)
SortedEvents(events) ==
    IF events = {} THEN <<>>
    ELSE LET rest(first) == <<first>> \o SortedEvents(events \ {first})
         IN  Bind(CHOOSE a \in events : \A b \in events : a <= b, rest)

\* One sample for every event but the first: the gap to the event before it.
HeadwaySamples(events) ==
    LET of(q) == {[at |-> q[k], gap |-> q[k] - q[k - 1]] : k \in 2..Len(q)}
    IN  Bind(SortedEvents(events), of)

\* A sample counts in the bucket of its own event, the later of the two.
BucketOfEarlier(sample) == (sample.at - sample.gap) \div HourLen
BucketOf(sample) == sample.at \div HourLen

\* The rows of headway_stats: one per bucket that has a sample.
Buckets(samples) == {BucketOf(x) : x \in samples}

HeadwayStats(samples) ==
    {[hour |-> h,
      observation_count |-> Cardinality({x \in samples : BucketOf(x) = h}),
      max_headway_minutes |->
          LET gaps == {x.gap : x \in {y \in samples : BucketOf(y) = h}}
          IN  IF gaps = {} THEN 0 ELSE CHOOSE g \in gaps : \A o \in gaps : o <= g] :
        h \in Buckets(samples)}

InitAggregator ==
    /\ AtRest
    /\ input \in SeriesInputs
    /\ output = NoCall

\* One aggregation over the series ('dbt run' exits 0).
Aggregate ==
    /\ input.kind = "series"
    /\ output = NoCall
    /\ LET out(samples) ==
               [kind |-> "headway", samples |-> samples,
                rows |-> HeadwayStats(samples)]
       IN  output' = Bind(HeadwaySamples(input.events), out)
    /\ UNCHANGED <<restVars, raw, input>>

NextAggregator == Aggregate

AggregatorSpec == InitAggregator /\ [][NextAggregator]_vars

\* ---- the claims ------------------------------------------------------------------

\* C1: in every reachable state at most one collection round is in progress,
\* under the scheduler's 'collect' job and under collect_loop, however long a
\* round lasts.
C1_NoOverlap == Cardinality(Running(c)) <= 1

\* The 'collect' job is due while a round is still running.
C1_Witness == driver = "scheduler" /\ collectDue /\ Running(c) # {}

RoundStarts == \E s \in DOMAIN c : c[s].pc = "idle" /\ c'[s].pc # "idle"

TickWhileRunning == collectDue /\ ~collectDue' /\ Running(c) # {}

\* C2: a tick that fires while a round is running is skipped, not queued: it
\* changes no round, under the scheduler a round starts only in the step
\* that takes the tick that is due, and a round starts only when a whole
\* interval has passed since the round start before it (at most one round
\* start per interval window).
C2_SkippedNotQueued ==
    [][/\ TickWhileRunning => c' = c
       /\ RoundStarts =>
             /\ sinceStart >= Interval
             /\ driver = "scheduler" => collectDue /\ ~collectDue']_vars

\* An interval boundary has passed, its tick is taken, and the round that
\* was running before it still runs.
C2_Witness ==
    /\ driver = "scheduler"
    /\ phase = 0 /\ ~collectDue
    /\ sinceStart >= Interval
    /\ Running(c) # {}

\* C5: no failure inside a collection round ends the collector process or
\* the schedule: the process keeps running and rounds start infinitely
\* often, after rounds that failed too.
C5_RoundsKeepStarting ==
    /\ [](proc = "running")
    /\ []<>(\E s \in DOMAIN c : c[s].pc = "load_config")

\* A round has ended in a failure of the store.
C5_Witness ==
    \E s \in DOMAIN c : c[s].pc = "ended" /\ c[s].outcome = "failed_store"

Other(a) == CHOOSE b \in Adapters : b # a

C4_MalformedIsolated ==
    \A s \in DOMAIN c :
        c[s].pc = "ended" => c[s].outcome # "failed_malformed"

\* C6: in every reachable state at most one run of job_dbt_and_push is in
\* progress.
C6_PublishSingleFlight == Cardinality(Running(p)) <= 1

\* The 'dbt_and_push' job is due while a publish run is still running.
C6_Witness == publishDue /\ Running(p) # {}

PublishOrder ==
    <<"dbt_run", "dbt_test", "export", "clone", "copy", "git_add", "commit", "push">>

FailureLogs == {"error_dbt", "error_export", "error_git", "job_raised"}

\* The steps of a run are a prefix of the order, each once; a failed step is
\* the last step of its run; a push follows only steps that succeeded.
StepsInOrder(r) ==
    /\ Len(r.steps) <= Len(PublishOrder)
    /\ r.steps = SubSeq(PublishOrder, 1, Len(r.steps))
    /\ r.failed # "none" =>
          /\ r.steps # <<>>
          /\ r.steps[Len(r.steps)] = r.failed
          /\ r.pc = "ended"

\* The order of the steps and the end of the run at the first failure hold
\* of every run.
PublishStepsInOrder == \A s \in DOMAIN p : StepsInOrder(p[s])

\* C7: the steps of a publish run are executed in order, each at most once;
\* a step that fails is the last step of its run (no later step, no retry)
\* and the run ends with a log line that reports the failure; so a push
\* follows only a transform, an export, a clone and a commit that succeeded.
C7_AbortAndLog ==
    \A s \in DOMAIN p :
        /\ StepsInOrder(p[s])
        /\ p[s].pc = "ended" /\ p[s].failed # "none" => p[s].log \in FailureLogs

\* C8 as stated: when two runs in succession reach the commit step with no
\* new data between them, the second does not push and the first did: one
\* push in all.
C8_ExactlyOnePush ==
    \A s \in DOMAIN p :
        (/\ p[s].pc \in {"commit", "push"}
         /\ p[s].unchanged
         /\ p[s].last # "none")
        => p[s].last = "pushed" /\ p[s].pc # "push"

\* C8 amended: when the run before this one pushed and this run exported
\* the same files, this run finds nothing to commit and does not push.
C8_SecondRunNoPush ==
    \A s \in DOMAIN p :
        p[s].unchanged /\ p[s].last = "pushed"
            => /\ p[s].pc # "push"
               /\ p[s].pc \in {"git_add", "commit"} => p[s].clone = p[s].base

\* The run after a run that pushed is at the commit step with the same files.
C8_Witness ==
    \E s \in DOMAIN p :
        /\ p[s].pc = "commit"
        /\ p[s].unchanged
        /\ p[s].last = "pushed"
        /\ \E t \in Range(MART_TABLES) : remote[t].exists

GitSteps == {"clone", "copy", "git_add", "commit", "push"}

\* C9: without GH_TOKEN a publish run clones, commits and pushes nothing, a
\* run that got past the export ends with the warning of the skip, the
\* process keeps running, and collection rounds keep starting.
C9_NoTokenSoftSkip ==
    /\ [](~env.ghToken =>
            /\ proc = "running"
            /\ remote = RemoteAtStart
            /\ \A s \in DOMAIN p :
                  /\ p[s].pc \notin GitSteps
                  /\ Range(p[s].steps) \cap GitSteps = {}
                  /\ (p[s].pc = "ended" /\ p[s].failed = "none")
                        => p[s].log = "warn_no_token")
    /\ [](~env.ghToken => <>(\E s \in DOMAIN c : c[s].pc = "load_config"))

\* Without the token a publish run has ended with the warning while a
\* collection round runs and rows are in the store.
C9_Witness ==
    /\ ~env.ghToken
    /\ \E s \in DOMAIN p : p[s].pc = "ended" /\ p[s].log = "warn_no_token"
    /\ Running(c) # {}
    /\ raw # {}

\* C10: after every successful export() the export file set holds a file for
\* each of the three mart tables, so the dashboard in parquet mode finds
\* headway_stats and does not stop with "No exported data found".
C10_ExportsEveryMart ==
    \A s \in DOMAIN p :
        p[s].pc = "token"
            => /\ \A t \in Range(MART_TABLES) : exports[t].exists
               /\ ~DashboardStopsNoData(exports)

\* A batch of adapter a failed with a network/HTTP error or a timeout and
\* nothing else went wrong in the round: a sent every one of its requests
\* and the rows it built are in the store.
UnavailableBatchGoesOn ==
    \A s \in DOMAIN c, a \in Adapters :
        (/\ c[s].pc = "ended"
         /\ a \in c[s].dropped
         /\ c[s].outcome \notin {"failed_malformed", "failed_store"})
        => /\ c[s].requests[a] = NBatches(a)
           /\ {x \in c[s].fetched : x.mode = a} \subseteq raw

\* C11: when a batch of an adapter failed (its request failed, or its
\* answer was malformed) and the store took every insert, the adapter has
\* still sent every one of its requests and the rows of its other batches
\* are in the Raw Prediction Store.
C11_BatchFailureIsolated ==
    \A s \in DOMAIN c, a \in Adapters :
        (/\ c[s].pc = "ended"
         /\ a \in c[s].dropped
         /\ c[s].outcome # "failed_store")
        => /\ c[s].requests[a] = NBatches(a)
           /\ {x \in c[s].fetched : x.mode = a} \subseteq raw

\* The normalizer on strings and on absent fields: it never raises, a string
\* written in one of the two formats from the fields of a date and time
\* gives that instant, one written from fields that are no date and time
\* gives None, and what is stored is what the normalizer returned.
StringsParse ==
    (output # NoCall /\ input.v.json \in {"string", "null"})
        => /\ output.kind \in {"instant", "none"}
           /\ input.fmt \in {"iso", "compact"} =>
                 output = IF ValidFields(input.at) THEN Instant(input.at) ELSE None
           /\ \A row \in raw : row.predicted_arrival = output

\* C14: the normalizer is total: a string in one of the two formats gives the
\* instant it denotes, every other value an adapter passes gives None and
\* nothing is raised, and None is stored as null.
C14_NormalizerTotal ==
    output # NoCall
        => /\ output.kind \in {"instant", "none"}
           /\ output = IF input.fmt \in {"iso", "compact"} /\ ValidFields(input.at)
                          THEN Instant(input.at)
                          ELSE None
           /\ \A row \in raw : row.predicted_arrival = output

\* A mandatory field of a row or record is missing: absent, null or empty.
Missing(v) == v \in {KeyAbsent, JNull, JStr(<<>>)}

RouteOf(rec) == Get(rec, "rt", KeyAbsent)
StopOf(rec) == Get(rec, Keys(input.mode).stop, KeyAbsent)
IdOf(rec) == Get(rec, Keys(input.mode).id, KeyAbsent)

\* C12: no row in the Raw Prediction Store has a missing route or stop id,
\* and every record of the answer that has both (and a route the allow-list
\* admits) has its row in the store.
C12_MandatoryFields ==
    output.kind = "inserted" =>
        /\ \A row \in raw : ~Missing(row.route) /\ ~Missing(row.stop_id)
        /\ \A k \in 1..Len(input.records) :
              LET rec == input.records[k]
              IN  (/\ ~Missing(RouteOf(rec))
                   /\ ~Missing(StopOf(rec))
                   /\ input.allow # {} => RouteOf(rec) \in input.allow)
                  => \E row \in raw : row.id = IdOf(rec)

\* The allow-list in the rail adapter: with a non-empty list every row has a
\* route of the list and every record with a route of the list has its row;
\* with an empty list every record has its row.
RailAllowList ==
    (output.kind = "inserted" /\ input.mode = "rail") =>
        /\ input.allow # {} => \A row \in raw : row.route \in input.allow
        /\ \A k \in 1..Len(input.records) :
              LET rec == input.records[k]
              IN  (input.allow = {} \/ RouteOf(rec) \in input.allow)
                      => \E row \in raw : row.id = IdOf(rec)

\* C13: for the rail and for the bus adapter, with a non-empty allow-list
\* every row appended has a route of the list, and with an empty allow-list
\* no record is dropped.
C13_RouteAllowList ==
    output.kind = "inserted" =>
        /\ input.allow # {} => \A row \in raw : row.route \in input.allow
        /\ input.allow = {} =>
              \A k \in 1..Len(input.records) :
                  \E row \in raw : row.id = IdOf(input.records[k])

\* C15: the Raw Prediction Store only grows: no step removes or changes a
\* row of it, whether the round succeeds, fails in part or fails; and a step
\* of a collection round leaves the mart tables, the export files and the
\* remote as they are.
C15_AppendOnly ==
    [][/\ raw \subseteq raw'
       /\ c' # c => marts' = marts /\ exports' = exports /\ remote' = remote]_vars

\* A round has failed after rows were appended, and the mart tables built
\* before it are still there.
C15_Witness ==
    /\ raw # {}
    /\ marts # NoFiles
    /\ \E s \in DOMAIN c : c[s].pc = "ended" /\ c[s].outcome \in FailedOutcomes

\* A step in which export() returns or fails.
ExportStep ==
    \E s \in DOMAIN p :
        /\ p[s].pc = "export"
        /\ p'[s].pc # "export"

\* C16: a step of export(), whether it returns or fails, leaves every raw
\* row and every mart table as it was; of the stores it changes the export
\* files only.
C16_ExportReadsOnly ==
    [][ExportStep => raw' = raw /\ marts' = marts /\ remote' = remote]_vars

\* export() has returned: the files hold the rows of the mart tables, which
\* are still in the store.
C16_Witness ==
    \E s \in DOMAIN p :
        /\ p[s].pc = "token"
        /\ raw # {}
        /\ marts["arrival_history"] = Holding(raw)
        /\ exports["arrival_history"] = Holding(raw)

\* The page load reached its last view or stopped with a message whenever
\* the selected stop has no arrival_history row and headway_stats, if present,
\* has a row.
DashboardRendersWithoutArrivals ==
    (/\ output.kind = "page"
     /\ output.pc = "error")
        => \/ /\ HasTable(input.files, "headway_stats")
              /\ input.files["headway_stats"].content = {}
           \/ \E r \in input.files["arrival_history"].content :
                  r.stop = output.selected

\* C17: for every combination of mart tables absent, present but empty or
\* present with rows, a page load of the dashboard never ends in an unhandled
\* error: it renders its views or stops with an explicit message.
C17_DashboardNeverCrashes ==
    output.kind = "page" => output.pc # "error"

\* Started with collect_data.py --loop and an unreadable config.yml, the
\* process ends and no collection round is ever started.
LoopStartupFatal ==
    (/\ input.kind = "startup"
     /\ ~input.readable
     /\ driver = "loop")
        => /\ proc # "running"
           /\ Running(c) = {}
           /\ raw = {}

\* C18: when config.yml cannot be read as the collector process starts, under
\* the scheduler process or under collect_data.py --loop, the process ends
\* before any collection round or publish run is started.
C18_UnreadableConfigFatal ==
    (/\ input.kind = "startup"
     /\ ~input.readable)
        => /\ proc # "running"
           /\ Running(c) = {}
           /\ Running(p) = {}

\* The schedules themselves are independent: a job that is due and has no
\* run in progress starts, whatever the other job is doing.
TicksIndependent ==
    (proc = "running" /\ driver = "scheduler")
        => /\ (collectDue /\ Running(c) = {}) => ENABLED CollectTicks
           /\ (publishDue /\ Running(p) = {}) => ENABLED PublishTicks

\* The dbt run of publish run s goes through.
DbtRunProceeds(s) == DbtRun(s, TRUE) /\ p'[s].pc = "dbt_test"

\* With no round holding the store, the dbt run can go through.
DbtProceedsOnFreeStore ==
    \A s \in PublishSlots :
        (p[s].pc = "dbt_run" /\ ~StoreHeld) => ENABLED DbtRunProceeds(s)

\* C19: the collection schedule and the publish schedule are independent: a
\* due job starts whatever the other job is doing, and a publish run that is
\* about to run dbt can proceed whether or not a collection round is in
\* progress.
C19_SchedulesIndependent ==
    /\ TicksIndependent
    /\ \A s \in PublishSlots : p[s].pc = "dbt_run" => ENABLED DbtRunProceeds(s)

RECURSIVE CountSum(_)
CountSum(rows) ==
    IF rows = {} THEN 0
    ELSE LET r == CHOOSE x \in rows : TRUE
         IN  r.observation_count + CountSum(rows \ {r})

\* C21: a series of N events gives N - 1 headway samples, one for every event
\* but the first, each the difference to the event just before it in
\* predicted-arrival order and counted in the hour bucket of the later event;
\* no row of headway_stats has observation_count 0.
C21_HeadwayCorrect ==
    output.kind = "headway" =>
        LET events == input.events
            n == Cardinality(events)
        IN  /\ Cardinality(output.samples) = IF n = 0 THEN 0 ELSE n - 1
            /\ \A e \in events :
                   LET before == {b \in events : b < e}
                       mine == {x \in output.samples : x.at = e}
                   IN  IF before = {} THEN mine = {}
                       ELSE /\ Cardinality(mine) = 1
                            /\ \A x \in mine :
                                   \E b \in before :
                                       /\ \A o \in before : o <= b
                                       /\ x.gap = e - b
            /\ \A r \in output.rows :
                   /\ r.observation_count > 0
                   /\ r.observation_count =
                          Cardinality({x \in output.samples :
                                          x.at \div HourLen = r.hour})
            /\ CountSum(output.rows) = Cardinality(output.samples)

\* A series of three events whose two gaps fall in different hours, with an
\* hour between the first and the last that has no sample.
C21_Witness ==
    /\ output.kind = "headway"
    /\ Cardinality(input.events) = 3
    /\ Cardinality(output.rows) = 2
    /\ \E x \in output.samples : (x.at - x.gap) \div HourLen # x.at \div HourLen

\* The stop ids of the batches, one after the other.
RECURSIVE Flat(_)
Flat(batches) ==
    IF batches = <<>> THEN <<>> ELSE Head(batches) \o Flat(Tail(batches))

\* The requests of the bus adapter so far carry consecutive slices of the
\* configured list from its start: 1 to 10 stop ids each, full but for the
\* one that ends the list.
SlicesInOrder(r) ==
    LET ids == StopIds(config.nStops)
        carried == Flat(r.sent)
    IN  /\ Len(carried) <= Len(ids)
        /\ carried = SubSeq(ids, 1, Len(carried))
        /\ \A k \in 1..Len(r.sent) :
               /\ Len(r.sent[k]) \in 1..BatchCap
               /\ Len(r.sent[k]) < BatchCap => (k = Len(r.sent) /\ carried = ids)

\* The slices are right at every moment of every round, and a round whose
\* bus adapter returned has sent every configured stop id in one request;
\* without stops or without CTA_BUS_KEY the adapter sends nothing.
BusBatchesWhenReturned ==
    \A s \in DOMAIN c :
        /\ SlicesInOrder(c[s])
        /\ (c[s].pc \in {"close", "ended"} /\ c[s].outcome \in {"none", "completed"}
            /\ "bus" \in c[s].invoked)
               => Flat(c[s].sent) = IF env.busKey THEN StopIds(config.nStops) ELSE <<>>

\* C22: in every round that ran the bus adapter with its key set and in
\* which the store took every insert, the requests carry consecutive slices
\* of the configured stop list in its order, 1 to 10 stop ids each, and every
\* configured stop id is in exactly one request of the round; an empty list
\* gives no request.
C22_BusBatching ==
    \A s \in DOMAIN c :
        /\ SlicesInOrder(c[s])
        /\ (/\ c[s].pc = "ended"
            /\ "bus" \in c[s].invoked
            /\ env.busKey
            /\ c[s].outcome # "failed_store")
               => Flat(c[s].sent) = StopIds(config.nStops)

\* C23: when the second adapter of a round sends its first request, every
\* row the first adapter built from its answers is in the Raw Prediction
\* Store; at every moment of a round the rows fetched and not in the store
\* are at most those of one batch, and there are none unless an insert failed.
C23_AppendedAsObtained ==
    \A s \in DOMAIN c :
        /\ (c[s].pc = "bus_req" /\ c[s].requests["bus"] = 0)
               => {x \in c[s].fetched : x.mode = "rail"} \subseteq raw
        /\ c[s].outcome # "failed_store" => c[s].fetched \subseteq raw
        /\ Cardinality(c[s].fetched \ raw) <= MaxRows

\* The bus adapter is about to send its first request and the rail adapter
\* has fetched rows in this round.
C23_Witness ==
    \E s \in DOMAIN c :
        /\ c[s].pc = "bus_req"
        /\ c[s].requests["bus"] = 0
        /\ c[s].requests["rail"] > 0
        /\ \E x \in c[s].fetched : x.mode = "rail"
        /\ c[s].fetched \subseteq raw

\* A step in which publish run s ends without a push that went through.
EndsUnpushed(s) ==
    /\ p[s].pc # "ended"
    /\ p'[s].pc = "ended"
    /\ p'[s].log # "info_pushed"

\* C24: the remote branch changes only by the push of a publish run, the
\* tree a run is about to push differs from the head it cloned only under
\* exports/, what the push leaves on the branch is that tree, and a run
\* that ends at any step without a push that went through leaves the remote
\* branch as it was.
C24_OnlyExportsPushed ==
    [][/\ \A s \in DOMAIN p :
              /\ p[s].pc = "push" => p[s].clone[OutsidePath] = p[s].base[OutsidePath]
              /\ EndsUnpushed(s) => remote' = remote
       /\ remote' # remote
              => /\ remote'[OutsidePath] = remote[OutsidePath]
                 /\ \E s \in DOMAIN p :
                        /\ p[s].pc = "push"
                        /\ p'[s].log = "info_pushed"
                        /\ remote' = p[s].clone]_vars

\* A run has pushed new export files and the file outside exports/ is on
\* the branch as before.
C24_Witness ==
    \E s \in DOMAIN p :
        /\ p[s].pc = "ended"
        /\ p[s].log = "info_pushed"
        /\ remote # RemoteAtStart
        /\ remote[OutsidePath] = RemoteAtStart[OutsidePath]

\* A run at the commit step with nothing new in exports/ ends there with
\* the 'no changes' line, and no run pushes an empty change set.
EmptyChangeSetSkips ==
    [][\A s \in DOMAIN p :
           (p[s].pc = "commit" /\ p[s].clone = p[s].base)
               => /\ p'[s].pc \in {"commit", "ended"}
                  /\ p'[s].pc = "ended" => p'[s].log = "info_no_changes"]_vars

\* C25: a publish run ends with the 'no changes, nothing to push' outcome
\* only when the export files of its clone are those of the head it cloned;
\* a run at the commit step with a change goes on to the push or ends with
\* a logged failure.
C25_NoChangesOnlyWhenEmpty ==
    [][\A s \in DOMAIN p :
           (p[s].pc = "commit" /\ p'[s].pc = "ended" /\ p'[s].log = "info_no_changes")
               => p[s].clone = p[s].base]_vars

\* A round that returned has closed its connection, and no round has a
\* connection before get_db or after its caller has returned.
ClosedWhenReturned ==
    \A s \in DOMAIN c :
        /\ (c[s].pc = "ended" /\ c[s].outcome = "completed") => ~c[s].conn
        /\ c[s].pc \in {"idle", "load_config", "get_db"} => ~c[s].conn

\* C26: when collect_once has returned or raised, the connection the round
\* opened is closed.
C26_ConnectionReleased ==
    \A s \in DOMAIN c : c[s].pc = "ended" => ~c[s].conn

====
